---- MODULE Spec2Model ----
(***************************************************************************)
(* HDL_Syntax: the conditional-compilation preprocessor of                 *)
(* HDL_Preprocessor.py (HDL_Preprocessor.preproc), modelled at the level   *)
(* of characters.  A buffer is a sequence of one-character strings,        *)
(* offsets are 0-based as in Python (the character at offset i is          *)
(* content[i+1]), and every regular expression of the source is an         *)
(* operator that matches as the expression does.                           *)
(***************************************************************************)
EXTENDS Integers, Sequences, FiniteSets, Bags, TLC

VARIABLES
    content,            \* preproc's parameter: the buffer being scanned
    pos,                \* preproc's local: scan position (0-based offset)
    exclude,            \* preproc's local: the exclusion cursor is excluding
    exclude_pos_start,  \* preproc's local: where the open exclusion began
    regions,            \* preproc's local: regions emitted so far
    defines,            \* self.defines: list of defined macro names
    conditionals,       \* self.conditionals: list of {equal, exclude} frames
    head,               \* self.head: stack of directories
    callers,            \* suspended preproc activations (the includers)
    files,              \* the file system: path -> content of the existing files
    pc,                 \* idle (no run yet) | scan | done (top-level return) | error (uncaught exception)
    prev_pos,           \* history: pos at the head of the iteration just completed, -1 if none
    now,                \* the clock read by datetime.datetime.now().timestamp()
    modified_time,      \* self.modified_time: time of the last modification
    compiled_time,      \* self.compiled_time: time of the last compilation
    modified_view,      \* self.modified_view: the last modified view, none for None
    delay,              \* settings.delay() as of the last settings.reload
    timers,             \* pending set_timeout_async callbacks: bag of [at, delay]
    buffer,             \* the text of each view (view.substr of the whole view)
    last_edit,          \* history: time of the last on_modified_async, -1 if none
    unseen,             \* history: views modified with no run started since
    last_run            \* history: the last run started by track_modifications

\* the state of the plugin host: clock, event listener, timers and views
host == <<now, modified_time, compiled_time, modified_view, delay, timers,
          buffer, last_edit, unseen, last_run>>

vars == <<content, pos, exclude, exclude_pos_start, regions, defines,
          conditionals, head, callers, files, pc, prev_pos, host>>

(***************************************************************************)
(* Characters and character classes of the regular expressions.            *)
(***************************************************************************)
\* the grave accent that starts a directive (the one character written as a name here)
BQ == "BACKTICK"
DQ == "\""
BS == "\\"
NL == "\n"
SP == " "

Lower == {"a","b","c","d","e","f","g","h","i","j","k","l","m",
          "n","o","p","q","r","s","t","u","v","w","x","y","z"}
Upper == {"A","B","C","D","E","F","G","H","I","J","K","L","M",
          "N","O","P","Q","R","S","T","U","V","W","X","Y","Z"}
Digit == {"0","1","2","3","4","5","6","7","8","9"}

IdentStartChars == Lower \cup Upper \cup {"_"}
IdentChars == Lower \cup Upper \cup Digit \cup {"_", "$"}
\* \s
SpaceChars == {" ", "\t", "\n", "\r", "\f"}

\* [a-zA-Z_]
IsIdentStart(ch) == ch \in IdentStartChars
\* [a-zA-Z0-9_$]
IsIdentChar(ch) == ch \in IdentChars

Least(S) == CHOOSE x \in S : \A y \in S : x <= y

At(c, i) == c[i + 1]

\* the literal lit occurs in c at offset i
StartsWith(c, i, lit) ==
    /\ i + Len(lit) <= Len(c)
    /\ \A k \in 1..Len(lit) : c[i + k] = lit[k]

\* c[i:j]
Slice(c, i, j) == [k \in 1..(j - i) |-> c[i + k]]

KW_INCLUDE  == <<BQ,"i","n","c","l","u","d","e">>
KW_DEFINE   == <<BQ,"d","e","f","i","n","e">>
KW_UNDEF    == <<BQ,"u","n","d","e","f">>
KW_RESETALL == <<BQ,"r","e","s","e","t","a","l","l">>
KW_IFDEF    == <<BQ,"i","f","d","e","f">>
KW_ELSE     == <<BQ,"e","l","s","e">>
KW_ENDIF    == <<BQ,"e","n","d","i","f">>
KW_IFNDEF   == <<BQ,"i","f","n","d","e","f">>

NoMatch == [ok |-> FALSE]

(***************************************************************************)
(* The scanner: the marker pattern (a backtick, a double quote, two        *)
(* slashes, or slash-star) searched from pos.                              *)
(***************************************************************************)
\* the number of characters of a marker
MarkerLen(x) == IF x \in {"//", "/*"} THEN 2 ELSE 1

MarkerAt(c, i) ==
    IF At(c, i) = BQ THEN BQ
    ELSE IF At(c, i) = DQ THEN DQ
    ELSE IF StartsWith(c, i, <<"/", "/">>) THEN "//"
    ELSE IF StartsWith(c, i, <<"/", "*">>) THEN "/*"
    ELSE ""

\* the leftmost offset >= i at which a marker starts, or -1
RECURSIVE FirstMarker(_, _)
FirstMarker(c, i) ==
    IF i >= Len(c) THEN -1
    ELSE IF MarkerAt(c, i) # "" THEN i
    ELSE FirstMarker(c, i + 1)

SearchMarker(c, p) ==
    LET s == FirstMarker(c, p)
    IN  IF s < 0 THEN NoMatch
        ELSE [ok |-> TRUE, start |-> s, end |-> s + MarkerLen(MarkerAt(c, s)),
              x |-> MarkerAt(c, s)]

\* the leftmost offset >= i at which lit occurs, or -1
RECURSIVE FirstOccurrence(_, _, _)
FirstOccurrence(c, i, lit) ==
    IF i + Len(lit) > Len(c) THEN -1
    ELSE IF StartsWith(c, i, lit) THEN i
    ELSE FirstOccurrence(c, i + 1, lit)

\* the newline pattern searched from match_end: end of the match, or -1
SearchNewline(c, p) ==
    IF FirstOccurrence(c, p, <<NL>>) < 0 THEN -1
    ELSE FirstOccurrence(c, p, <<NL>>) + 1

\* the block-comment-end pattern searched from match_end: end of the match, or -1
SearchBlockEnd(c, p) ==
    IF FirstOccurrence(c, p, <<"*", "/">>) < 0 THEN -1
    ELSE FirstOccurrence(c, p, <<"*", "/">>) + 2

\* the string-end pattern (a double quote not preceded by a backslash) searched
\* from match_end (lines 140-141): end of the match, or -1
\* (the look-behind reads the character before the quote, also before match_end)
RECURSIVE SearchStringEnd(_, _)
SearchStringEnd(c, p) ==
    IF p >= Len(c) THEN -1
    ELSE IF At(c, p) = DQ /\ (p = 0 \/ At(c, p - 1) # BS) THEN p + 1
    ELSE SearchStringEnd(c, p + 1)

(***************************************************************************)
(* The directive grammars, each matched at the marker (pattern.match).     *)
(***************************************************************************)
\* end of the longest run of characters of the set cls from offset i
RECURSIVE RunEnd(_, _, _)
RunEnd(c, i, cls) ==
    IF i >= Len(c) \/ At(c, i) \notin cls THEN i
    ELSE RunEnd(c, i + 1, cls)

\* end of the longest run of characters other than a double quote from offset i
RECURSIVE NonQuoteRunEnd(_, _)
NonQuoteRunEnd(c, i) ==
    IF i >= Len(c) \/ At(c, i) = DQ THEN i
    ELSE NonQuoteRunEnd(c, i + 1)

\* ([a-zA-Z_][a-zA-Z0-9_$]*) at offset i
MatchIdent(c, i) ==
    IF i < Len(c) /\ IsIdentStart(At(c, i))
    THEN [ok |-> TRUE, start |-> i, end |-> RunEnd(c, i + 1, IdentChars)]
    ELSE NoMatch

\* (kw)\s+([a-zA-Z_][a-zA-Z0-9_$]*)
MatchKeywordName(c, s, kw) ==
    IF ~StartsWith(c, s, kw) THEN NoMatch
    ELSE LET w == RunEnd(c, s + Len(kw), SpaceChars)
             id == MatchIdent(c, w)
         IN  IF w > s + Len(kw) /\ id.ok
             THEN [ok |-> TRUE, start1 |-> s, end1 |-> s + Len(kw),
                   end2 |-> id.end, group2 |-> Slice(c, id.start, id.end)]
             ELSE NoMatch

\* (kw)[^a-zA-Z0-9_$]
MatchKeywordBare(c, s, kw) ==
    IF /\ StartsWith(c, s, kw)
       /\ s + Len(kw) < Len(c)
       /\ ~IsIdentChar(At(c, s + Len(kw)))
    THEN [ok |-> TRUE, start1 |-> s, end1 |-> s + Len(kw)]
    ELSE NoMatch

\* the include pattern: keyword, one space, a quoted run of 1+ non-quote characters
MatchInclude(c, s) ==
    LET q == s + Len(KW_INCLUDE) + 1
    IN  IF StartsWith(c, s, KW_INCLUDE \o <<SP, DQ>>)
        THEN LET e == NonQuoteRunEnd(c, q + 1)
             IN  IF e > q + 1 /\ e < Len(c)
                 THEN [ok |-> TRUE, start1 |-> s, end1 |-> s + Len(KW_INCLUDE),
                       end2 |-> e, group2 |-> Slice(c, q + 1, e)]
                 ELSE NoMatch
        ELSE NoMatch

\* the define pattern: keyword, exactly one space, an identifier
MatchDefine(c, s) ==
    IF ~StartsWith(c, s, KW_DEFINE \o <<SP>>) THEN NoMatch
    ELSE LET id == MatchIdent(c, s + Len(KW_DEFINE) + 1)
         IN  IF id.ok
             THEN [ok |-> TRUE, start1 |-> s, end1 |-> s + Len(KW_DEFINE),
                   end2 |-> id.end, group2 |-> Slice(c, id.start, id.end)]
             ELSE NoMatch

MatchUndef(c, s)    == MatchKeywordName(c, s, KW_UNDEF)
MatchResetall(c, s) == MatchKeywordBare(c, s, KW_RESETALL)
MatchIfdef(c, s)    == MatchKeywordName(c, s, KW_IFDEF)
MatchElse(c, s)     == MatchKeywordBare(c, s, KW_ELSE)
MatchEndif(c, s)    == MatchKeywordBare(c, s, KW_ENDIF)
MatchIfndef(c, s)   == MatchKeywordName(c, s, KW_IFNDEF)

\* the chain of if-not-match blocks: the first grammar that matches wins
Directive(c, s) ==
    IF MatchInclude(c, s).ok THEN "include"
    ELSE IF MatchDefine(c, s).ok THEN "define"
    ELSE IF MatchUndef(c, s).ok THEN "undef"
    ELSE IF MatchResetall(c, s).ok THEN "resetall"
    ELSE IF MatchIfdef(c, s).ok THEN "ifdef"
    ELSE IF MatchElse(c, s).ok THEN "else"
    ELSE IF MatchEndif(c, s).ok THEN "endif"
    ELSE IF MatchIfndef(c, s).ok THEN "ifndef"
    ELSE "none"

(***************************************************************************)
(* One iteration of the scan loop (while pos < len(content)), one action   *)
(* per branch of the loop body.                                            *)
(***************************************************************************)
Scanning == pc = "scan" /\ pos < Len(content)

\* match = pattern.search(content, pos)
match == SearchMarker(content, pos)

AtDirective(kind) ==
    /\ Scanning
    /\ LET m == match
       IN  /\ m.ok
           /\ m.x = BQ
           /\ Directive(content, m.start) = kind

Region(a, b) == [a |-> a, b |-> b]

Last(q) == q[Len(q)]
DelLast(q) == SubSeq(q, 1, Len(q) - 1)
Contains(q, x) == \E k \in 1..Len(q) : q[k] = x
\* list.remove(x): drops the first occurrence
Remove(q, x) ==
    LET k == Least({j \in 1..Len(q) : q[j] = x})
    IN  SubSeq(q, 1, k - 1) \o SubSeq(q, k + 1, Len(q))

\* the loop iteration ends with the new position np and nothing else changed
Advance(np) ==
    /\ pos' = np
    /\ prev_pos' = pos
    /\ UNCHANGED <<content, exclude, exclude_pos_start, regions, defines,
                   conditionals, head, callers, files, pc, host>>

\* an uncaught exception (IndexError) leaves preproc and every includer
Raise ==
    /\ pc' = "error"
    /\ UNCHANGED <<content, pos, exclude, exclude_pos_start, regions, defines,
                   conditionals, head, callers, files, prev_pos, host>>

\* lines 262-263: no marker is left
NoMarker ==
    /\ Scanning
    /\ ~match.ok
    /\ Advance(Len(content))

\* lines 121-128
LineCommentEnd(c, match_end) ==
    IF SearchNewline(c, match_end) >= 0 THEN SearchNewline(c, match_end) ELSE Len(c)

LineComment ==
    /\ Scanning
    /\ match.ok
    /\ match.x = "//"
    /\ Advance(LineCommentEnd(content, match.end))

\* lines 130-137
BlockCommentEnd(c, match_end) ==
    IF SearchBlockEnd(c, match_end) >= 0 THEN SearchBlockEnd(c, match_end) ELSE Len(c)

BlockComment ==
    /\ Scanning
    /\ match.ok
    /\ match.x = "/*"
    /\ Advance(BlockCommentEnd(content, match.end))

\* lines 139-146
StringEnd(c, match_end) ==
    IF SearchStringEnd(c, match_end) >= 0 THEN SearchStringEnd(c, match_end) ELSE Len(c)

String ==
    /\ Scanning
    /\ match.ok
    /\ match.x = DQ
    /\ Advance(StringEnd(content, match.end))

\* lines 258-259: no grammar matched at the backtick
PassThrough ==
    /\ AtDirective("none")
    /\ Advance(match.end)

(***************************************************************************)
(* define, undef, resetall                                                 *)
(***************************************************************************)
\* Define that skips the directive while the cursor is excluding
Define_UnlessExcluding ==
    /\ AtDirective("define")
    /\ LET m == MatchDefine(content, match.start)
       IN  IF ~exclude /\ ~Contains(defines, m.group2)
           THEN /\ defines' = Append(defines, m.group2)
                /\ pos' = m.end2
           ELSE IF exclude
           THEN /\ pos' = m.end2
                /\ UNCHANGED defines
           ELSE UNCHANGED <<defines, pos>>
    /\ prev_pos' = pos
    /\ UNCHANGED <<content, exclude, exclude_pos_start, regions,
                   conditionals, head, callers, files, pc, host>>

\* lines 182-188: pos is assigned only inside the not-in test
Define ==
    /\ AtDirective("define")
    /\ LET m == MatchDefine(content, match.start)
       IN  IF ~Contains(defines, m.group2)
           THEN /\ defines' = Append(defines, m.group2)
                /\ pos' = m.end2
           ELSE UNCHANGED <<defines, pos>>
    /\ prev_pos' = pos
    /\ UNCHANGED <<content, exclude, exclude_pos_start, regions,
                   conditionals, head, callers, files, pc, host>>

\* lines 190-196: pos is assigned only inside the in test
Undef ==
    /\ AtDirective("undef")
    /\ LET m == MatchUndef(content, match.start)
       IN  IF Contains(defines, m.group2)
           THEN /\ defines' = Remove(defines, m.group2)
                /\ pos' = m.end2
           ELSE UNCHANGED <<defines, pos>>
    /\ prev_pos' = pos
    /\ UNCHANGED <<content, exclude, exclude_pos_start, regions,
                   conditionals, head, callers, files, pc, host>>

\* lines 198-203
Resetall ==
    /\ AtDirective("resetall")
    /\ defines' = <<>>
    /\ pos' = MatchResetall(content, match.start).end1
    /\ prev_pos' = pos
    /\ UNCHANGED <<content, exclude, exclude_pos_start, regions,
                   conditionals, head, callers, files, pc, host>>

(***************************************************************************)
(* ifdef, ifndef, else, endif                                              *)
(***************************************************************************)
\* OpenConditional without the assignment of exclude_pos_start (lines 215, 256)
OpenConditional_StaleStart(m, take) ==
    /\ conditionals' = Append(conditionals,
                              [equal |-> take, exclude |-> ~exclude /\ ~take])
    /\ IF ~exclude /\ ~take
       THEN exclude' = TRUE
       ELSE UNCHANGED exclude
    /\ pos' = m.end2
    /\ prev_pos' = pos
    /\ UNCHANGED <<content, exclude_pos_start, regions, defines, head, callers,
                   files, pc, host>>

\* lines 209-216 and 250-257: take is the value stored as the frame's equal
OpenConditional(m, take) ==
    /\ conditionals' = Append(conditionals,
                              [equal |-> take, exclude |-> ~exclude /\ ~take])
    /\ IF ~exclude /\ ~take
       THEN /\ exclude' = TRUE
            /\ exclude_pos_start' = m.start1
       ELSE UNCHANGED <<exclude, exclude_pos_start>>
    /\ pos' = m.end2
    /\ prev_pos' = pos
    /\ UNCHANGED <<content, regions, defines, head, callers, files, pc, host>>

\* lines 205-216
Ifdef ==
    /\ AtDirective("ifdef")
    /\ LET m == MatchIfdef(content, match.start)
       IN  OpenConditional(m, Contains(defines, m.group2))

\* lines 246-257
Ifndef ==
    /\ AtDirective("ifndef")
    /\ LET m == MatchIfndef(content, match.start)
       IN  OpenConditional(m, ~Contains(defines, m.group2))

\* lines 218-233: conditionals[-1] raises IndexError on an empty list
Else ==
    /\ AtDirective("else")
    /\ LET m == MatchElse(content, match.start)
       IN  IF conditionals = <<>>
           THEN Raise
           ELSE /\ IF ~exclude
                   THEN /\ conditionals' =
                            [conditionals EXCEPT ![Len(conditionals)] =
                                [equal |-> TRUE, exclude |-> TRUE]]
                        /\ exclude' = TRUE
                        /\ exclude_pos_start' = m.end1
                        /\ UNCHANGED regions
                   ELSE IF Last(conditionals).exclude
                   THEN /\ conditionals' =
                            [conditionals EXCEPT ![Len(conditionals)] =
                                [equal |-> ~Last(conditionals).equal,
                                 exclude |-> FALSE]]
                        /\ exclude' = FALSE
                        /\ regions' = Append(regions,
                                             Region(exclude_pos_start, m.start1))
                        /\ UNCHANGED exclude_pos_start
                   ELSE UNCHANGED <<conditionals, exclude, exclude_pos_start,
                                    regions>>
                /\ pos' = m.end1
                /\ prev_pos' = pos
                /\ UNCHANGED <<content, defines, head, callers, files, pc, host>>

\* lines 235-244: conditionals[-1] and del conditionals[-1] raise IndexError
\* on an empty list
Endif ==
    /\ AtDirective("endif")
    /\ LET m == MatchEndif(content, match.start)
       IN  IF conditionals = <<>>
           THEN Raise
           ELSE /\ IF exclude /\ Last(conditionals).exclude
                   THEN /\ exclude' = FALSE
                        /\ regions' = Append(regions,
                                             Region(exclude_pos_start, m.end1))
                   ELSE UNCHANGED <<exclude, regions>>
                /\ conditionals' = DelLast(conditionals)
                /\ pos' = m.end1
                /\ prev_pos' = pos
                /\ UNCHANGED <<content, exclude_pos_start, defines, head,
                               callers, files, pc, host>>

(***************************************************************************)
(* include: the target is joined to the directory on top of self.head,     *)
(* then to each directory of settings.incdirs() in order.  A path is the   *)
(* pair of a directory and a file name (targets here carry no directory    *)
(* part, so os.path.split(file_name)[0] is the directory joined with).     *)
(***************************************************************************)
Path(d, n) == [dir |-> d, name |-> n]
NoPath == Path("", <<>>)

\* settings.incdirs(): the configured search directories, in order
incdirs == <<"inc1", "inc2">>

\* os.path.isfile(file_name)
IsFile(p) == p \in DOMAIN files

\* Resolve with the last search directory that has the file winning
Resolve_LastHit(hd, name) ==
    IF IsFile(Path(Last(hd), name)) THEN Path(Last(hd), name)
    ELSE LET found == {k \in 1..Len(incdirs) : IsFile(Path(incdirs[k], name))}
         IN  IF found = {} THEN NoPath
             ELSE Path(incdirs[CHOOSE k \in found : \A l \in found : l <= k],
                       name)

\* lines 155-157 and 167-170, 179: the file the include opens, or NoPath
Resolve(hd, name) ==
    IF IsFile(Path(Last(hd), name)) THEN Path(Last(hd), name)
    ELSE LET found == {k \in 1..Len(incdirs) : IsFile(Path(incdirs[k], name))}
         IN  IF found = {} THEN NoPath
             ELSE Path(incdirs[Least(found)], name)

IncludeTarget == Resolve(head, MatchInclude(content, match.start).group2)

\* line 180
IncludeResume == MatchInclude(content, match.start).end2 + 1

\* no candidate is a file: lines 157, 166-170, 180
IncludeNotFound ==
    /\ AtDirective("include")
    /\ IncludeTarget = NoPath
    /\ Advance(IncludeResume)

\* open() raises OSError: lines 159/172, 164-165/177-178, 180
IncludeOpenError ==
    /\ AtDirective("include")
    /\ IncludeTarget # NoPath
    /\ Advance(IncludeResume)

\* file.read() raises OSError after self.head.append: lines 160-161, 164-165, 180
IncludeReadError ==
    /\ AtDirective("include")
    /\ IncludeTarget # NoPath
    /\ head' = Append(head, IncludeTarget.dir)
    /\ pos' = IncludeResume
    /\ prev_pos' = pos
    /\ UNCHANGED <<content, exclude, exclude_pos_start, regions, defines,
                   conditionals, callers, files, pc, host>>

\* lines 159-162 (172-175): self.preproc(include_content) is entered, with
\* fresh locals (lines 106-111); the includer waits in callers
IncludeCall ==
    /\ AtDirective("include")
    /\ IncludeTarget # NoPath
    /\ callers' = Append(callers,
                         [content |-> content, pos |-> pos,
                          resume |-> IncludeResume, exclude |-> exclude,
                          exclude_pos_start |-> exclude_pos_start,
                          regions |-> regions])
    /\ head' = Append(head, IncludeTarget.dir)
    /\ content' = files[IncludeTarget]
    /\ pos' = 0
    /\ exclude' = FALSE
    /\ exclude_pos_start' = 0
    /\ regions' = <<>>
    /\ prev_pos' = -1
    /\ UNCHANGED <<defines, conditionals, files, pc, host>>

\* IncludeReturn with the regions of the nested scan added to the includer's
IncludeReturn_KeepRegions ==
    /\ pc = "scan"
    /\ pos >= Len(content)
    /\ callers # <<>>
    /\ LET f == Last(callers)
       IN  /\ content' = f.content
           /\ pos' = f.resume
           /\ exclude' = f.exclude
           /\ exclude_pos_start' = f.exclude_pos_start
           /\ regions' = f.regions \o regions
           /\ prev_pos' = f.pos
    /\ callers' = DelLast(callers)
    /\ head' = DelLast(head)
    /\ UNCHANGED <<defines, conditionals, files, pc, host>>

\* the nested loop ends (line 113), its regions are returned (line 264) and
\* dropped by the caller (line 162); lines 163 and 180
IncludeReturn ==
    /\ pc = "scan"
    /\ pos >= Len(content)
    /\ callers # <<>>
    /\ LET f == Last(callers)
       IN  /\ content' = f.content
           /\ pos' = f.resume
           /\ exclude' = f.exclude
           /\ exclude_pos_start' = f.exclude_pos_start
           /\ regions' = f.regions
           /\ prev_pos' = f.pos
    /\ callers' = DelLast(callers)
    /\ head' = DelLast(head)
    /\ UNCHANGED <<defines, conditionals, files, pc, host>>

\* Return that closes an exclusion still open at the end of the buffer
Return_CloseOpenExclusion ==
    /\ pc = "scan"
    /\ pos >= Len(content)
    /\ callers = <<>>
    /\ pc' = "done"
    /\ regions' = IF exclude
                  THEN Append(regions, Region(exclude_pos_start, Len(content)))
                  ELSE regions
    /\ UNCHANGED <<content, pos, exclude, exclude_pos_start, defines,
                   conditionals, head, callers, files, prev_pos, host>>

\* the top-level loop ends (line 113) and preproc returns regions (line 264)
Return ==
    /\ pc = "scan"
    /\ pos >= Len(content)
    /\ callers = <<>>
    /\ pc' = "done"
    /\ UNCHANGED <<content, pos, exclude, exclude_pos_start, regions, defines,
                   conditionals, head, callers, files, prev_pos, host>>

(***************************************************************************)
(* The inputs: top-level buffers (view.substr of the whole view, line 86)  *)
(* and file systems, drawn from bounded families.                          *)
(***************************************************************************)
MaxFrags == 3      \* directives in a buffer of mixed directives
MaxNest == 5       \* directives in a buffer of conditionals
MaxStr == 4        \* characters after the opening quote of a string buffer
MaxLexFrags == 4   \* lexical fragments before the trailing conditional
MaxIncFrags == 3   \* directives in a buffer with includes

NameA == <<"A">>
IFDEF_A   == KW_IFDEF \o <<SP>> \o NameA
IFNDEF_A  == KW_IFNDEF \o <<SP>> \o NameA
DEFINE_A  == KW_DEFINE \o <<SP>> \o NameA
UNDEF_A   == KW_UNDEF \o <<SP>> \o NameA
TEXT      == <<"x">>
INCLUDE(n) == KW_INCLUDE \o <<SP, DQ>> \o n \o <<DQ>>
FileF == <<"f">>
FileG == <<"g">>

Seqs(S, n) == UNION {[1..k -> S] : k \in 1..n}

RECURSIVE Join(_, _)
Join(fs, sep) ==
    IF Len(fs) = 0 THEN <<>>
    ELSE IF Len(fs) = 1 THEN fs[1]
    ELSE fs[1] \o sep \o Join(Tail(fs), sep)

\* lines of directives: joined by newlines or written one after the other
\* with nothing between them, with or without a final newline
Layouts == {<<<<NL>>, <<NL>>>>, <<<<NL>>, <<>>>>, <<<<>>, <<>>>>, <<<<>>, <<NL>>>>}

CondFrags == {IFDEF_A, IFNDEF_A, KW_ELSE, KW_ENDIF, DEFINE_A, UNDEF_A,
              KW_RESETALL, TEXT}

CondBuffers ==
    {Join(fs, l[1]) \o l[2] : fs \in Seqs(CondFrags, MaxFrags), l \in Layouts}

\* conditionals only, nested and in sequence, with A defined first or not
NestFrags == {IFDEF_A, IFNDEF_A, KW_ELSE, KW_ENDIF}
Prefixes == {<<>>, DEFINE_A \o <<NL>>}
NestBuffers ==
    {p \o Join(fs, <<NL>>) \o t :
        p \in Prefixes,
        fs \in {q \in Seqs(NestFrags, MaxNest) : q[1] \in {IFDEF_A, IFNDEF_A}},
        t \in {<<>>, <<NL>>}}

\* what follows the last directive of a buffer
Rests == {<<>>, <<NL>>, <<NL>> \o TEXT \o <<NL>>}

\* ifdef A, a body without markers, endif
IfdefEndif == IFDEF_A \o <<NL>> \o TEXT \o <<NL>> \o KW_ENDIF
IfdefEndifBuffers == {IfdefEndif \o r : r \in Rests}

\* one conditional with an else branch, both bodies without markers
Openers == {IFDEF_A, IFNDEF_A}
ElseBuffer(p, o, r) ==
    p \o o \o <<NL>> \o TEXT \o <<NL>> \o KW_ELSE \o <<NL>> \o TEXT \o <<NL>>
      \o KW_ENDIF \o r
ElseBuffers == {ElseBuffer(p, o, r) : p \in Prefixes, o \in Openers, r \in Rests}

\* an excluded outer conditional around nested conditionals
ExcludedOuters == {<<<<>>, IFDEF_A>>, <<DEFINE_A \o <<NL>>, IFNDEF_A>>}
InnerBlocks ==
    {Join(<<o, KW_ENDIF>>, <<NL>>) : o \in Openers}
    \cup {Join(<<o, KW_ELSE, KW_ENDIF>>, <<NL>>) : o \in Openers}
    \cup {Join(<<o1, o2, KW_ELSE, KW_ENDIF, KW_ELSE, KW_ENDIF>>, <<NL>>) :
              o1 \in Openers, o2 \in Openers}
NestedBuffer(po, inner, r) ==
    po[1] \o po[2] \o <<NL>> \o inner \o <<NL>> \o KW_ENDIF \o r
NestedBuffers ==
    {NestedBuffer(po, inner, r) :
        po \in ExcludedOuters, inner \in InnerBlocks, r \in Rests}

\* an opening quote followed by quotes, backslashes and letters
StrChars == {DQ, BS, "a"}
StrBuffers == {<<DQ>> \o b : b \in Seqs(StrChars, MaxStr)}

\* comments, strings and a define between them, then a conditional on A
LexFrags == {<<"/", "/">>, <<"/", "*">>, <<"*", "/">>, <<DQ>>, <<BS, DQ>>,
             <<BS, BS, DQ>>, <<NL>>, DEFINE_A}
IfdefBlock == IFDEF_A \o <<NL>> \o TEXT \o <<NL>> \o KW_ENDIF \o <<NL>>
LexBuffers ==
    {Join(fs, <<SP>>) \o <<NL>> \o IfdefBlock : fs \in Seqs(LexFrags, MaxLexFrags)}

IncFrags == {INCLUDE(FileF), IFDEF_A, KW_ELSE, KW_ENDIF, DEFINE_A, KW_RESETALL}
IncBuffers ==
    {Join(fs, <<NL>>) \o t :
        fs \in {q \in Seqs(IncFrags, MaxIncFrags) :
                    \E k \in 1..Len(q) : q[k] = INCLUDE(FileF)},
        t \in {<<>>, <<NL>>}}

\* contents of the included file f; g is included by f only
FContents == {<<>>, DEFINE_A \o <<NL>>, UNDEF_A \o <<NL>>, KW_RESETALL,
              KW_RESETALL \o <<NL>>, IFDEF_A \o <<NL>>, KW_ELSE \o <<NL>>,
              KW_ENDIF \o <<NL>>, IfdefBlock, INCLUDE(FileG) \o <<NL>>}
GContents == {DEFINE_A \o <<NL>>, KW_ENDIF \o <<NL>>}

\* a define, undef, resetall or include inside a branch that is not taken,
\* then a conditional on A
ExcludedDirective(p, o, d) ==
    p \o Join(<<o, d, KW_ENDIF>>, <<NL>>) \o <<NL>> \o IfdefBlock
ExcludedDefine == ExcludedDirective(<<>>, IFDEF_A, DEFINE_A)
ExcludedInclude == ExcludedDirective(<<>>, IFDEF_A, INCLUDE(FileF))
ExcludedBuffers ==
    {ExcludedDefine}
    \cup {ExcludedDirective(DEFINE_A \o <<NL>>, IFNDEF_A, d) :
              d \in {UNDEF_A, KW_RESETALL}}

NoFiles == [p \in {} |-> <<>>]
OneFile(d, n, c) == [p \in {Path(d, n)} |-> c]
TwoFiles(d1, n1, c1, d2, n2, c2) ==
    [p \in {Path(d1, n1), Path(d2, n2)} |->
        IF p = Path(d1, n1) THEN c1 ELSE c2]

FileSystems ==
    {NoFiles}
    \cup {OneFile("cur", FileF, c) : c \in FContents}
    \cup {OneFile(d, FileF, DEFINE_A \o <<NL>>) : d \in {"inc1", "inc2"}}
    \cup {TwoFiles(d1, FileF, DEFINE_A \o <<NL>>, d2, FileF, UNDEF_A \o <<NL>>) :
             d1 \in {"cur", "inc1"}, d2 \in {"inc1", "inc2"}}
    \cup {TwoFiles("inc1", FileF, INCLUDE(FileG) \o <<NL>>, d, FileG, c) :
             d \in {"cur", "inc1", "inc2"}, c \in GContents}

(***************************************************************************)
(* The host side: on_modified_async records an edit and arms a timer,      *)
(* track_modifications is the timer's callback.  Sublime Text runs both on *)
(* its one async thread, so a handler runs to its end (a preproc run       *)
(* included) before the next one starts.  Times are integers; the code     *)
(* compares them with 0.95 * delay and arms the timer with 1050 * delay    *)
(* milliseconds, which are compared here after scaling by 100 and 1000.    *)
(***************************************************************************)
MaxTime == 5       \* the clock stops here
MaxTimers == 2     \* callbacks pending at the same time

\* the views: v1 and v2 hold Verilog files, v3 a file of another kind
Views == {"v1", "v2", "v3"}

\* get_os_path, lines 54-67: the lower-cased extension of the view's file
Ext(v) == IF v = "v1" THEN ".v" ELSE IF v = "v2" THEN ".sv" ELSE ".txt"

\* line 84
SupportedExt == {".v", ".vh", ".sv", ".svh"}

\* settings.reload(view), settings.delay(): the delay configured for the
\* project of the view's window
Delay(v) == IF v = "v2" THEN 2 ELSE 1

\* delay() without a configured value (0.1 s, the unit of time here)
DefaultDelay == 1

\* line 41: milliseconds of timeout per second of delay
TimeoutMillis == 1050

\* line 78: hundredths of the delay that must have passed since the edit
QuietPercent == 95

\* the timeout of the timer t, armed at t.at for 1050 * t.delay ms, has expired
Due(t) == 1000 * (now - t.at) >= TimeoutMillis * t.delay

\* line 78: (now - self.modified_time) > 0.95 * delay
Quiet == 100 * (now - modified_time) > QuietPercent * delay

\* the texts a view can hold: a conditional on A; defines and conditionals
\* that leave A defined and a frame open; comments, a string, a backtick
\* and includes of f (which defines A) and of g (which does not exist)
DefsView ==
    Join(<<DEFINE_A, UNDEF_A, KW_RESETALL, IFNDEF_A, KW_ELSE, KW_ENDIF,
           DEFINE_A, IFDEF_A>>, <<NL>>) \o <<NL>>
LexIncView ==
    <<"/", "/", "x", NL, "/", "*", "x", "*", "/", DQ, "a", DQ, NL>>
      \o INCLUDE(FileF) \o <<NL>> \o INCLUDE(FileG) \o <<NL, BQ>> \o TEXT
Texts(v) ==
    IF Ext(v) \in SupportedExt THEN {IfdefBlock, DefsView, LexIncView}
    ELSE {TEXT}
HostFiles == OneFile("cur", FileF, DEFINE_A \o <<NL>>)

\* time passes between two handlers
Tick ==
    /\ pc # "scan"
    /\ now < MaxTime
    /\ now' = now + 1
    /\ UNCHANGED <<content, pos, exclude, exclude_pos_start, regions, defines,
                   conditionals, head, callers, files, pc, prev_pos,
                   modified_time, compiled_time, modified_view, delay, timers,
                   buffer, last_edit, unseen, last_run>>

\* lines 27-41: the view v was modified, its text is now c
on_modified_async(v) ==
    /\ pc # "scan"
    /\ BagCardinality(timers) < MaxTimers
    /\ \E c \in Texts(v) : buffer' = [buffer EXCEPT ![v] = c]
    /\ modified_time' = now
    /\ modified_view' = v
    /\ delay' = Delay(v)
    /\ timers' = timers (+) SetToBag({[at |-> now, delay |-> Delay(v)]})
    /\ last_edit' = now
    /\ unseen' = unseen \cup {v}
    /\ UNCHANGED <<content, pos, exclude, exclude_pos_start, regions, defines,
                   conditionals, head, callers, files, pc, prev_pos,
                   now, compiled_time, last_run>>

\* track_modifications that starts a run whenever the edit is quiet,
\* compiled already or not
track_modifications_Recompile ==
    /\ pc # "scan"
    /\ \E t \in BagToSet(timers) :
          /\ Due(t)
          /\ timers' = timers (-) SetToBag({t})
    /\ IF modified_time >= compiled_time /\ Quiet
       THEN /\ compiled_time' = modified_time
            /\ IF modified_view \in Views
               THEN /\ head' = <<"cur">>
                    /\ IF Ext(modified_view) \in SupportedExt
                       THEN /\ content' = buffer[modified_view]
                            /\ defines' = <<>>
                            /\ conditionals' = <<>>
                            /\ pos' = 0
                            /\ exclude' = FALSE
                            /\ exclude_pos_start' = 0
                            /\ regions' = <<>>
                            /\ callers' = <<>>
                            /\ pc' = "scan"
                            /\ prev_pos' = -1
                            /\ unseen' = unseen \ {modified_view}
                            /\ last_run' =
                                   [stamp |-> modified_time,
                                    left |-> [defines |-> defines,
                                              conditionals |-> conditionals]]
                       ELSE UNCHANGED <<content, defines, conditionals, pos,
                                        exclude, exclude_pos_start, regions,
                                        callers, pc, prev_pos, unseen,
                                        last_run>>
               ELSE UNCHANGED <<content, defines, conditionals, pos, exclude,
                                exclude_pos_start, regions, callers, pc,
                                prev_pos, unseen, last_run, head>>
       ELSE UNCHANGED <<compiled_time, content, defines, conditionals, pos,
                        exclude, exclude_pos_start, regions, callers, pc,
                        prev_pos, unseen, last_run, head>>
    /\ UNCHANGED <<files, now, modified_time, modified_view, delay, buffer,
                   last_edit>>

\* track_modifications without lines 87-88: the run starts on the tables
\* the run before left
track_modifications_KeepTables ==
    /\ pc # "scan"
    /\ \E t \in BagToSet(timers) :
          /\ Due(t)
          /\ timers' = timers (-) SetToBag({t})
    /\ IF modified_time > compiled_time /\ Quiet
       THEN /\ compiled_time' = modified_time
            /\ IF modified_view \in Views
               THEN /\ head' = <<"cur">>
                    /\ IF Ext(modified_view) \in SupportedExt
                       THEN /\ content' = buffer[modified_view]
                            /\ pos' = 0
                            /\ exclude' = FALSE
                            /\ exclude_pos_start' = 0
                            /\ regions' = <<>>
                            /\ callers' = <<>>
                            /\ pc' = "scan"
                            /\ prev_pos' = -1
                            /\ unseen' = unseen \ {modified_view}
                            /\ last_run' =
                                   [stamp |-> modified_time,
                                    left |-> [defines |-> defines,
                                              conditionals |-> conditionals]]
                            /\ UNCHANGED <<defines, conditionals>>
                       ELSE UNCHANGED <<content, defines, conditionals, pos,
                                        exclude, exclude_pos_start, regions,
                                        callers, pc, prev_pos, unseen,
                                        last_run>>
               ELSE UNCHANGED <<content, defines, conditionals, pos, exclude,
                                exclude_pos_start, regions, callers, pc,
                                prev_pos, unseen, last_run, head>>
       ELSE UNCHANGED <<compiled_time, content, defines, conditionals, pos,
                        exclude, exclude_pos_start, regions, callers, pc,
                        prev_pos, unseen, last_run, head>>
    /\ UNCHANGED <<files, now, modified_time, modified_view, delay, buffer,
                   last_edit>>

\* lines 69-93: a timer fires.  When the last edit is not compiled yet and
\* is quiet, it is marked compiled, self.head becomes the directory of the
\* view's file and, for a view with a supported extension, preproc is entered
\* on the view's text with self.defines and self.conditionals emptied (the
\* locals of preproc as in lines 106-111).
track_modifications ==
    /\ pc # "scan"
    /\ \E t \in BagToSet(timers) :
          /\ Due(t)
          /\ timers' = timers (-) SetToBag({t})
    /\ IF modified_time > compiled_time /\ Quiet
       THEN /\ compiled_time' = modified_time
            /\ IF modified_view \in Views
               THEN /\ head' = <<"cur">>
                    /\ IF Ext(modified_view) \in SupportedExt
                       THEN /\ content' = buffer[modified_view]
                            /\ defines' = <<>>
                            /\ conditionals' = <<>>
                            /\ pos' = 0
                            /\ exclude' = FALSE
                            /\ exclude_pos_start' = 0
                            /\ regions' = <<>>
                            /\ callers' = <<>>
                            /\ pc' = "scan"
                            /\ prev_pos' = -1
                            /\ unseen' = unseen \ {modified_view}
                            /\ last_run' =
                                   [stamp |-> modified_time,
                                    left |-> [defines |-> defines,
                                              conditionals |-> conditionals]]
                       ELSE UNCHANGED <<content, defines, conditionals, pos,
                                        exclude, exclude_pos_start, regions,
                                        callers, pc, prev_pos, unseen,
                                        last_run>>
               ELSE UNCHANGED <<content, defines, conditionals, pos, exclude,
                                exclude_pos_start, regions, callers, pc,
                                prev_pos, unseen, last_run, head>>
       ELSE UNCHANGED <<compiled_time, content, defines, conditionals, pos,
                        exclude, exclude_pos_start, regions, callers, pc,
                        prev_pos, unseen, last_run, head>>
    /\ UNCHANGED <<files, now, modified_time, modified_view, delay, buffer,
                   last_edit>>

(***************************************************************************)
(* The specification of the scanner: one run over each buffer of the       *)
(* families above, started by track_modifications for an edit of v1.       *)
(***************************************************************************)
\* track_modifications, lines 82-89: head is the directory of the view's file,
\* defines and conditionals are emptied, preproc starts with its locals reset
\* (lines 106-111)
Init ==
    /\ \/ /\ content \in CondBuffers \cup NestBuffers \cup IfdefEndifBuffers
                          \cup ElseBuffers \cup NestedBuffers
                          \cup StrBuffers \cup LexBuffers
                          \cup ExcludedBuffers
          /\ files = NoFiles
       \/ /\ content \in IncBuffers \cup {ExcludedInclude}
          /\ files \in FileSystems
    /\ pos = 0
    /\ exclude = FALSE
    /\ exclude_pos_start = 0
    /\ regions = <<>>
    /\ defines = <<>>
    /\ conditionals = <<>>
    /\ head = <<"cur">>
    /\ callers = <<>>
    /\ pc = "scan"
    /\ prev_pos = -1
    /\ now = 3
    /\ modified_time = 1
    /\ compiled_time = 1
    /\ modified_view = "v1"
    /\ delay = Delay("v1")
    /\ timers = EmptyBag
    /\ buffer = [v \in Views |-> IF v = "v1" THEN content ELSE <<>>]
    /\ last_edit = 1
    /\ unseen = {}
    /\ last_run = [stamp |-> 1,
                   left |-> [defines |-> <<>>, conditionals |-> <<>>]]

Next ==
    \/ NoMarker
    \/ LineComment
    \/ BlockComment
    \/ String
    \/ PassThrough
    \/ IncludeNotFound
    \/ IncludeOpenError
    \/ IncludeReadError
    \/ IncludeCall
    \/ IncludeReturn
    \/ Define
    \/ Undef
    \/ Resetall
    \/ Ifdef
    \/ Ifndef
    \/ Else
    \/ Endif
    \/ Return

Spec == Init /\ [][Next]_vars

(***************************************************************************)
(* The specification of the plugin: edits, timers and the runs they start. *)
(***************************************************************************)
\* lines 47-52 and 327-328: the plugin is loaded and no view was modified;
\* the clock has moved on since __init__ read it
HostInit ==
    /\ now = 1
    /\ modified_time = 0
    /\ compiled_time = 0
    /\ modified_view = "none"
    /\ delay = DefaultDelay
    /\ timers = EmptyBag
    /\ buffer = [v \in Views |-> <<>>]
    /\ last_edit = -1
    /\ unseen = {}
    /\ last_run = [stamp |-> -1,
                   left |-> [defines |-> <<>>, conditionals |-> <<>>]]
    /\ files = HostFiles
    /\ content = <<>>
    /\ pos = 0
    /\ exclude = FALSE
    /\ exclude_pos_start = 0
    /\ regions = <<>>
    /\ defines = <<>>
    /\ conditionals = <<>>
    /\ head = <<>>
    /\ callers = <<>>
    /\ pc = "idle"
    /\ prev_pos = -1

HostNext ==
    \/ Tick
    \/ \E v \in Views : on_modified_async(v)
    \/ track_modifications
    \/ Next

HostSpec == HostInit /\ [][HostNext]_vars

(***************************************************************************)
(* The claims.                                                             *)
(***************************************************************************)
\* the buffer and the region list of the top-level run
TopContent == IF callers = <<>> THEN content ELSE callers[1].content
TopRegions == IF callers = <<>> THEN regions ELSE callers[1].regions

\* C1: every iteration of the scan loop strictly advances the scan position,
\* whatever the directive and the Define Table (so the scan of a finite buffer
\* ends): after an iteration, pos is greater than it was at the loop head.
C1_IterationAdvances ==
    (pc = "scan" /\ prev_pos >= 0) => pos > prev_pos

\* C2: a top-level buffer made of ifdef A, a body without markers and endif,
\* with A undefined, yields exactly one region, from the start of the ifdef
\* to the end of the endif, whatever follows the endif (nothing included).
C2_IfdefEndifOneRegion ==
    \A r \in Rests :
        (pc = "done" /\ content = IfdefEndif \o r)
            => regions = <<Region(0, Len(IfdefEndif))>>

\* C3: for one ifdef/ifndef NAME, else, endif, the branch that is not selected
\* is the only region: [start of the opener, start of else) when the first
\* branch is not taken, [end of else, end of endif) when it is; ifdef takes
\* the first branch iff NAME is defined, ifndef iff it is not.
C3_ElseExcludesOtherBranch ==
    \A p \in Prefixes, o \in Openers, r \in Rests :
        (pc = "done" /\ content = ElseBuffer(p, o, r))
            => LET defined == (p # <<>>)
                   take == IF o = IFDEF_A THEN defined ELSE ~defined
                   else_start == Len(p) + Len(o) + Len(<<NL>> \o TEXT \o <<NL>>)
                   else_end == else_start + Len(KW_ELSE)
                   endif_end == else_end + Len(<<NL>> \o TEXT \o <<NL>>)
                                         + Len(KW_ENDIF)
               IN  regions = IF take THEN <<Region(else_end, endif_end)>>
                             ELSE <<Region(Len(p), else_start)>>

\* C4: when an outer conditional is excluded, the directives of conditionals
\* nested inside it neither end the exclusion nor emit a region: the one
\* region returned spans the whole outer block, opener to end of its endif.
C4_NestedInExcludedOneRegion ==
    \A po \in ExcludedOuters, inner \in InnerBlocks, r \in Rests :
        (pc = "done" /\ content = NestedBuffer(po, inner, r))
            => regions = <<Region(Len(po[1]),
                                  Len(NestedBuffer(po, inner, <<>>)))>>

\* C5: an else or endif met while the Conditional Stack is empty is ignored:
\* no abort, Define Table, Conditional Stack and exclusion cursor unchanged,
\* no region emitted, and the scan continues after the directive.
C5_UnbalancedIgnored ==
    [][(AtDirective("else") \/ AtDirective("endif")) /\ conditionals = <<>>
          => /\ pc' = "scan"
             /\ UNCHANGED <<defines, conditionals, exclude, exclude_pos_start,
                            regions>>
             /\ pos' = match.start + (IF AtDirective("else")
                                      THEN Len(KW_ELSE) ELSE Len(KW_ENDIF))]_vars

\* the lexical rules the claims C6 and C7 refer to: a string ends at the first
\* double quote preceded by an even number of backslashes
RECURSIVE BackslashesBefore(_, _)
BackslashesBefore(c, p) ==
    IF p > 0 /\ At(c, p - 1) = BS THEN 1 + BackslashesBefore(c, p - 1) ELSE 0

RECURSIVE UnescapedQuoteEnd(_, _)
UnescapedQuoteEnd(c, p) ==
    IF p >= Len(c) THEN Len(c)
    ELSE IF At(c, p) = DQ /\ BackslashesBefore(c, p) % 2 = 0 THEN p + 1
    ELSE UnescapedQuoteEnd(c, p + 1)

\* offset i of c lies inside a line comment, a block comment or a string
\* literal, scanning from p by those rules
RECURSIVE InCommentOrString(_, _, _)
InCommentOrString(c, p, i) ==
    LET mk == SearchMarker(c, p)
    IN  IF ~mk.ok \/ mk.start >= i THEN FALSE
        ELSE LET e == IF mk.x = "//" THEN LineCommentEnd(c, mk.end)
                      ELSE IF mk.x = "/*" THEN BlockCommentEnd(c, mk.end)
                      ELSE IF mk.x = DQ THEN UnescapedQuoteEnd(c, mk.end)
                      ELSE IF MatchInclude(c, mk.start).ok
                           THEN MatchInclude(c, mk.start).end2 + 1
                      ELSE mk.end
             IN  IF mk.x # BQ /\ i < e THEN TRUE
                 ELSE InCommentOrString(c, e, i)

\* C6: a directive keyword inside a line comment, a block comment or a string
\* literal never changes the Define Table or the Conditional Stack.
C6_ProtectedDirectiveInert ==
    [][(Scanning /\ match.ok /\ match.x = BQ
          /\ InCommentOrString(content, 0, match.start))
          => UNCHANGED <<defines, conditionals>>]_vars

\* C7: a string literal is consumed up to the next double quote preceded by
\* an even number of backslashes, and the scan resumes right after that quote,
\* or at the end of the buffer when there is none.
C7_StringEndsAtUnescapedQuote ==
    [][(String /\ ~InCommentOrString(content, 0, match.start))
          => pos' = UnescapedQuoteEnd(content, match.end)]_vars

\* C8: the region list of a top-level run is in ascending order and pairwise
\* non-overlapping, and every region lies in the buffer
\* (0 <= start, end <= len(content)); empty says whether start = end is allowed.
RegionsOrdered(rs, c, empty) ==
    /\ \A k \in 1..Len(rs) :
          /\ 0 <= rs[k].a
          /\ IF empty THEN rs[k].a <= rs[k].b ELSE rs[k].a < rs[k].b
          /\ rs[k].b <= Len(c)
    /\ \A k \in 1..(Len(rs) - 1) : rs[k].b <= rs[k + 1].a

\* C8 as amended: ascending, non-overlapping, 0 <= start <= end <= len(content).
C8_RegionsOrderedDisjoint == RegionsOrdered(TopRegions, TopContent, TRUE)

\* C8 as stated: every region also has start < end.
C8_RegionsNonEmpty == RegionsOrdered(TopRegions, TopContent, FALSE)

\* a run that returns two regions
C8_TwoRegionsReturned == pc = "done" /\ Len(regions) >= 2

\* a region boundary of the includer is set by a conditional directive of the
\* includer's own buffer
OwnRegion(c, r) ==
    /\ \/ StartsWith(c, r.a, KW_IFDEF)
       \/ StartsWith(c, r.a, KW_IFNDEF)
       \/ r.a >= Len(KW_ELSE) /\ StartsWith(c, r.a - Len(KW_ELSE), KW_ELSE)
    /\ \/ StartsWith(c, r.b, KW_ELSE)
       \/ r.b >= Len(KW_ENDIF) /\ StartsWith(c, r.b - Len(KW_ENDIF), KW_ENDIF)

\* C9: an included file is scanned over the includer's Define Table and
\* Conditional Stack (entering and leaving the nested scan changes neither, so
\* what the file defined stays defined for the includer), the regions of the
\* nested scan are dropped, every region of the includer is opened and
\* closed by directives of its own buffer, and an ifdef A that follows the
\* include of a file defining A takes its branch (no region).
C9_IncludeSharesStateDropsRegions ==
    /\ [][IncludeCall => UNCHANGED <<defines, conditionals>>]_vars
    /\ [][IncludeReturn => /\ UNCHANGED <<defines, conditionals>>
                           /\ content' = Last(callers).content
                           /\ regions' = Last(callers).regions]_vars
    /\ [](\A k \in 1..Len(regions) : OwnRegion(content, regions[k]))
    /\ []((/\ pc = "done"
            /\ content = Join(<<INCLUDE(FileF), IFDEF_A, KW_ENDIF>>, <<NL>>)
                            \o <<NL>>
            /\ Contains(defines, NameA))
              => regions = <<>>)

\* the included file defined A, so the includer's later ifdef A took its
\* branch and the run returned no region
C9_IncludedDefineSeen ==
    /\ pc = "done"
    /\ content = Join(<<INCLUDE(FileF), IFDEF_A, KW_ENDIF>>, <<NL>>) \o <<NL>>
    /\ Path("cur", FileF) \in DOMAIN files
    /\ files[Path("cur", FileF)] = DEFINE_A \o <<NL>>
    /\ defines = <<NameA>>
    /\ regions = <<>>

\* the scanner stands on a resetall keyword that no identifier character follows
AtResetallToken ==
    /\ Scanning
    /\ match.ok
    /\ match.x = BQ
    /\ StartsWith(content, match.start, KW_RESETALL)
    /\ LET e == match.start + Len(KW_RESETALL)
       IN  e = Len(content) \/ ~IsIdentChar(At(content, e))

\* C10: after a resetall the Define Table is empty whatever was defined
\* before, so a later ifdef X does not take its branch; here for a resetall
\* of an included file, whose includer goes on scanning.
C10_ResetallEmptiesDefines ==
    [][(AtResetallToken /\ callers # <<>>) => defines' = <<>>]_vars

\* C13: the Directory Context is balanced across an include on every exit
\* path: a step that handles an include without entering a nested scan (file
\* not found, open failure, read failure after the push) leaves head as it
\* was, and when a nested scan returns head has the depth of the includer
\* again (one directory per scan in progress).
C13_DirectoryContextBalanced ==
    [][/\ (AtDirective("include") /\ callers' = callers) => head' = head
       /\ (callers # <<>> /\ callers' = DelLast(callers))
             => Len(head') = Len(callers') + 1]_vars

\* the candidate directories of an include, in the claimed order: the top of
\* the Directory Context, then the configured search directories
Candidates(hd) == <<Last(hd)>> \o incdirs

\* the first candidate directory that holds a file called name, or NoPath
FirstExisting(hd, name) ==
    LET c == Candidates(hd)
        hit == {k \in 1..Len(c) : Path(c[k], name) \in DOMAIN files}
    IN  IF hit = {} THEN NoPath ELSE Path(c[Least(hit)], name)

\* C14: an include target is resolved against the top of the Directory
\* Context first, then against the search directories in order: a nested scan
\* entered at an include is over the content of the first existing candidate
\* and pushes its directory, one scan is entered per directive (the includer
\* resumes after the quoted path when the nested scan returns), and when no
\* candidate exists no scan is entered and the step only moves the position.
C14_FirstExistingFileScanned ==
    /\ [][AtDirective("include") =>
            LET t == FirstExisting(head,
                                   MatchInclude(content, match.start).group2)
            IN  /\ (callers' # callers) =>
                      /\ t # NoPath
                      /\ Len(callers') = Len(callers) + 1
                      /\ content' = files[t]
                      /\ head' = Append(head, t.dir)
                /\ (t = NoPath) =>
                      /\ pos' = MatchInclude(content, match.start).end2 + 1
                      /\ UNCHANGED <<content, callers, head, defines,
                                     conditionals, regions>>]_vars
    /\ [][(callers # <<>> /\ callers' = DelLast(callers)) =>
            /\ content' = Last(callers).content
            /\ pos' = Last(callers).resume
            /\ pos' > Last(callers).pos]_vars

\* f is missing beside the includer and present in both search directories:
\* the file of the first one is being scanned
C14_FirstSearchDirWins ==
    /\ Len(callers) = 1
    /\ head = <<"cur", "inc1">>
    /\ ~IsFile(Path("cur", FileF))
    /\ IsFile(Path("inc1", FileF))
    /\ IsFile(Path("inc2", FileF))
    /\ content = files[Path("inc1", FileF)]
    /\ content # files[Path("inc2", FileF)]

\* the frames of the Conditional Stack with suppressing = true
Suppressing == {k \in 1..Len(conditionals) : conditionals[k].exclude}

\* C15: at every point of a run, also while included files are scanned, at
\* most one frame of the Conditional Stack is suppressing, and when a frame
\* is suppressing an exclusion is open (on the cursor of the scan in progress
\* or of one of its includers).
C15_OneSuppressingFrame ==
    /\ Cardinality(Suppressing) <= 1
    /\ (Suppressing # {}) =>
          (exclude \/ \E j \in 1..Len(callers) : callers[j].exclude)

\* number of entries of the Define Table equal to n
Count(s, n) == Cardinality({k \in 1..Len(s) : s[k] = n})

\* C16: the Define Table behaves as a set: define NAME leaves NAME present
\* exactly once, undef NAME leaves it absent, every other name is unchanged,
\* and after either directive the scan resumes after the name.
C16_DefineTableIsSet ==
    [][(AtDirective("define") \/ AtDirective("undef")) =>
          LET m == IF AtDirective("define")
                   THEN MatchDefine(content, match.start)
                   ELSE MatchUndef(content, match.start)
          IN  /\ Count(defines', m.group2)
                    = (IF AtDirective("define") THEN 1 ELSE 0)
              /\ \A n \in {defines[k] : k \in 1..Len(defines)} \ {m.group2} :
                    Count(defines', n) = Count(defines, n)
              /\ pos' = m.end2]_vars

\* C18: a region is added to the list of a scan only by an else or an endif
\* that closes the open exclusion, and it starts where that exclusion began;
\* when the top-level buffer ends, also while the cursor is still excluding,
\* the regions emitted so far are returned unchanged.
C18_RegionOnlyOnClose ==
    [][/\ (Len(callers') = Len(callers) /\ regions' # regions) =>
             /\ AtDirective("else") \/ AtDirective("endif")
             /\ exclude
             /\ ~exclude'
             /\ \E b \in 0..Len(content) :
                   regions' = Append(regions, Region(exclude_pos_start, b))
       /\ (pc' = "done") => regions' = regions]_vars

\* the buffer ended inside an open exclusion after a region had been emitted
C18_EndedWhileExcluding == pc = "done" /\ exclude /\ regions # <<>>

\* C19: define, undef, resetall and include are executed whether or not the
\* cursor is excluding: while excluding, define NAME leaves NAME in the Define
\* Table, undef NAME leaves it out, resetall empties the table and an include
\* whose file exists can enter its nested scan; after a define A in a branch
\* that is not taken, a later ifdef A takes its branch (the only region is
\* the branch that was not taken).
C19_ExcludedDirectivesExecuted ==
    /\ [][(exclude /\ AtDirective("define")) =>
            Contains(defines', MatchDefine(content, match.start).group2)]_vars
    /\ [][(exclude /\ AtDirective("undef")) =>
            ~Contains(defines', MatchUndef(content, match.start).group2)]_vars
    /\ [][(exclude /\ AtDirective("resetall")) => defines' = <<>>]_vars
    /\ []((exclude /\ AtDirective("include") /\ IncludeTarget # NoPath)
             => ENABLED IncludeCall)
    /\ []((pc = "done" /\ content = ExcludedDefine) =>
             /\ defines = <<NameA>>
             /\ regions = <<Region(0, Len(Join(<<IFDEF_A, DEFINE_A, KW_ENDIF>>,
                                               <<NL>>)))>>)

\* the define of the branch that was not taken was executed and the later
\* ifdef A took its branch
C19_ExcludedDefineSeen ==
    /\ pc = "done"
    /\ content = ExcludedDefine
    /\ defines = <<NameA>>
    /\ Len(regions) = 1

\* a step of track_modifications that enters preproc
RunStarts == pc # "scan" /\ pc' = "scan"

\* C11: every top-level run started by track_modifications begins with an
\* empty Define Table and an empty Conditional Stack, so what an earlier run
\* left defined or open has no effect on the regions of a later run: a run
\* over ifdef A, a body, endif returns the region of that block, whatever
\* ran before.
C11_RunStartsWithEmptyTables ==
    /\ [][RunStarts => (defines' = <<>> /\ conditionals' = <<>>)]_vars
    /\ []((pc = "done" /\ content = IfdefBlock)
             => regions = <<Region(0, Len(IfdefBlock) - 1)>>)

\* the run before left A defined and a frame open, and the run over the
\* conditional on A returned its region
C11_LaterRunUnaffected ==
    /\ pc = "done"
    /\ content = IfdefBlock
    /\ last_run.left.defines # <<>>
    /\ last_run.left.conditionals # <<>>
    /\ regions = <<Region(0, Len(IfdefBlock) - 1)>>

\* C12: for any interleaving of on_modified_async events and timer
\* callbacks, a run starts only when more than 0.95 * delay has passed since
\* the most recent edit, it is a run for the timestamp of that edit, and that
\* timestamp is later than the one of the run before (at most one run per
\* last-edit timestamp).
C12_RunWhenQuietOncePerEdit ==
    [][RunStarts =>
          /\ 100 * (now - last_edit) > QuietPercent * delay
          /\ last_run'.stamp = last_edit
          /\ last_run'.stamp > last_run.stamp]_vars

\* a run was started for the last edit while another callback is pending
C12_RunStartedCallbackPending ==
    /\ pc = "scan"
    /\ prev_pos = -1
    /\ last_run.stamp = last_edit
    /\ timers # EmptyBag

\* C17: every view with a supported extension that was modified gets a run
\* over its text after its last modification.  Stated on finite runs: once
\* every timer has fired and no handler is running (so nothing more
\* happens until the next modification), no view with a supported extension
\* is left modified without a run started since.
C17_ModifiedViewGetsRun ==
    (timers = EmptyBag /\ pc # "scan")
        => \A v \in unseen : Ext(v) \notin SupportedExt

====
